---- MODULE Spec2Model ----
(***************************************************************************)
(* The bonding-curve program of programs/bonding-curve/src/lib.rs: the two *)
(* curve functions, the swap and withdraw_liquidity instruction handlers,  *)
(* and the token ledger they move balances on.                             *)
(*                                                                         *)
(* Scale.  TLC's integers are 32 bits wide, so the 64/128-bit arithmetic   *)
(* of the program is modelled on a reduced scale that keeps every relation *)
(* between the program's numbers that the code's branches depend on:       *)
(*   K_VALUE = INITIAL_TOKEN_SUPPLY * INITIAL_VIRTUAL_SWARMS,              *)
(*   INITIAL_VIRTUAL_SWARMS < INITIAL_TOKEN_SUPPLY < U64_MAX,              *)
(*   U64_MAX < K_VALUE - INITIAL_VIRTUAL_SWARMS   (narrowing can fail),    *)
(*   K_VALUE < U128_MAX + 1 - U64_MAX   (a wrapped difference exceeds K),  *)
(*   U64_MAX + INITIAL_VIRTUAL_SWARMS <= U128_MAX (the sum never wraps).   *)
(***************************************************************************)
EXTENDS Integers, Sequences, FiniteSets, TLC

\* Largest value of the narrow unsigned type (u64 in the program).
U64_MAX == 7
\* Largest value of the wide unsigned type (u128 in the program).
U128_MAX == 63
\* SWARMS the trader holds when the pool is created.
UserSwarms == 3
\* Largest amount asked for in a withdrawal (besides a request for U64_MAX).
MaxWithdraw == 1

\* lib.rs:12-14, on the reduced scale.
INITIAL_VIRTUAL_SWARMS == 2
INITIAL_TOKEN_SUPPLY == 6
K_VALUE == 12

\* lib.rs:8-9
SWARMS_TOKEN_ADDRESS == "74SBV4zDXxTRgv1pEMoECskKBkZHc2yGPnc7GYVepump"
WITHDRAW_AUTHORITY == "CihEpQp6CSP9wGfwijvPivshSV6VbgvNef1JMMPQ4R9G"

U64 == 0..U64_MAX

---------------------------------------------------------------------------
\* Public keys.  A Pubkey is 32 bytes; the model names the ones that occur.
SwarmsMintKey == "key:swarms_mint"
MintedMintKey == "key:minted_mint"
OtherMintKey == "key:other_mint"
UserKey == "key:user"
WithdrawAuthorityKey == "key:withdraw_authority"
OperatorKey == "key:operator"
VaultKey == "key:vault_pda"

MintKeys == {SwarmsMintKey, MintedMintKey, OtherMintKey}
SignerKeys == {UserKey, WithdrawAuthorityKey, OperatorKey}

\* Pubkey::to_string: the base58 text of a key (injective).
to_string(key) ==
    CASE key = SwarmsMintKey -> "74SBV4zDXxTRgv1pEMoECskKBkZHc2yGPnc7GYVepump"
      [] key = WithdrawAuthorityKey -> "CihEpQp6CSP9wGfwijvPivshSV6VbgvNef1JMMPQ4R9G"
      [] key = MintedMintKey -> "MintedMint111111111111111111111111111111111"
      [] key = OtherMintKey -> "otherMint1111111111111111111111111111111111"
      [] key = UserKey -> "User111111111111111111111111111111111111111"
      [] key = OperatorKey -> "operator11111111111111111111111111111111111"
      [] OTHER -> "VauLtPda11111111111111111111111111111111111"

\* The token accounts of the ledger.
TokenAccountIds ==
    {"user_swarms", "user_minted", "vault_swarms", "vault_minted",
     "authority_swarms", "authority_minted"}

VARIABLES
    overflow_checks,  \* build profile: does integer overflow panic (TRUE) or wrap
    vault,            \* the TokenVault record of the pool
    token_accounts,   \* ledger: account id -> [mint, owner, amount]
    last,             \* the last instruction: inputs, result, committed transfers
    calc              \* the last evaluation of the curve functions

vars == <<overflow_checks, vault, token_accounts, last, calc>>

---------------------------------------------------------------------------
\* Result<u64>: Ok(v), Err(code), or a panic (the program aborts).
Ok(v) == [tag |-> "Ok", val |-> v]
Err(code) == [tag |-> code, val |-> 0]
Panic == [tag |-> "Panic", val |-> 0]

\* `a - b` on u128: panics under overflow checks, wraps without them.
u128_sub(a, b) ==
    IF a >= b THEN Ok(a - b)
    ELSE IF overflow_checks THEN Panic
    ELSE Ok((a + (U128_MAX + 1) - b) % (U128_MAX + 1))

\* `a + b` on u128.
u128_add(a, b) ==
    IF a + b <= U128_MAX THEN Ok(a + b)
    ELSE IF overflow_checks THEN Panic
    ELSE Ok((a + b) % (U128_MAX + 1))

\* u128::saturating_sub
saturating_sub(a, b) == IF a >= b THEN a - b ELSE 0

\* u128 -> u64 with try_into().map_err(BondingCurveError)
try_into_u64(v) == IF v <= U64_MAX THEN Ok(v) ELSE Err("BondingCurveError")

\* A returned tokens-remaining figure instead of tokens out.
calculate_tokens_out_remaining(swarms_in) ==
    try_into_u64(K_VALUE \div (swarms_in + INITIAL_VIRTUAL_SWARMS))

\* lib.rs:230-241
calculate_tokens_out(swarms_in) ==
    LET swarms_in_u128 == u128_add(swarms_in, INITIAL_VIRTUAL_SWARMS)
    IN  IF swarms_in_u128.tag # "Ok" THEN swarms_in_u128
        ELSE LET tokens_out == u128_sub(INITIAL_TOKEN_SUPPLY,
                                        K_VALUE \div swarms_in_u128.val)
             IN  IF tokens_out.tag # "Ok" THEN tokens_out
                 ELSE try_into_u64(tokens_out.val)

\* `swarms_out as u64` in place of try_into: the narrowing truncates.
calculate_swarms_out_truncating(tokens_in) ==
    LET tokens_remaining == u128_sub(INITIAL_TOKEN_SUPPLY, tokens_in)
    IN  IF tokens_remaining.tag # "Ok" THEN tokens_remaining
        ELSE IF tokens_remaining.val = 0 THEN Err("BondingCurveError")
        ELSE Ok(saturating_sub(K_VALUE \div tokens_remaining.val,
                               INITIAL_VIRTUAL_SWARMS) % (U64_MAX + 1))

\* lib.rs:246-261
calculate_swarms_out(tokens_in) ==
    LET tokens_remaining == u128_sub(INITIAL_TOKEN_SUPPLY, tokens_in)
    IN  IF tokens_remaining.tag # "Ok" THEN tokens_remaining
        ELSE IF tokens_remaining.val = 0 THEN Err("BondingCurveError")
        ELSE LET swarms_total == K_VALUE \div tokens_remaining.val
                 swarms_out == saturating_sub(swarms_total, INITIAL_VIRTUAL_SWARMS)
             IN  try_into_u64(swarms_out)

---------------------------------------------------------------------------
\* The token ledger (anchor_spl::token::transfer, the SPL Token program's
\* Transfer): the source must hold the amount, both accounts must be of one
\* mint, the authority must own the source; a transfer of an account to
\* itself passes the checks and changes nothing.
token_transfer(accounts, from, to, authority, amount) ==
    IF accounts[from].amount < amount
        THEN [tag |-> "InsufficientFunds", accounts |-> accounts]
    ELSE IF accounts[from].mint # accounts[to].mint
        THEN [tag |-> "MintMismatch", accounts |-> accounts]
    ELSE IF accounts[from].owner # authority
        THEN [tag |-> "OwnerMismatch", accounts |-> accounts]
    ELSE IF from = to
        THEN [tag |-> "Ok", accounts |-> accounts]
    ELSE IF accounts[to].amount + amount > U64_MAX
        THEN [tag |-> "Overflow", accounts |-> accounts]
    ELSE [tag |-> "Ok",
          accounts |-> [accounts EXCEPT ![from].amount = @ - amount,
                                        ![to].amount = @ + amount]]

\* seeds = [b"vault", minted_mint.key()], bump: the vault's derived address.
vault_address(minted_mint) ==
    IF minted_mint = MintedMintKey THEN VaultKey ELSE "key:no_vault"

\* An instruction that returns Err: the runtime discards everything it did.
Abort(accounts, code) ==
    [result |-> code, accounts |-> accounts, transfers |-> <<>>]

Transfer(from, to, amount) == [from |-> from, to |-> to, amount |-> amount]

---------------------------------------------------------------------------
\* swap (lib.rs:20-88)

\* lib.rs:26-29
swap_check_swarms_mint(ctx) == to_string(ctx.swarms_mint) = SWARMS_TOKEN_ADDRESS

\* The input-token check left out.
swap_check_input_token_absent(ctx) == TRUE

\* lib.rs:32-36
swap_check_input_token(ctx) ==
    \/ ctx.token_in_mint = ctx.swarms_mint
    \/ ctx.token_in_mint = ctx.minted_mint

\* lib.rs:41-47
swap_output_amount(ctx, amount_in) ==
    IF ctx.token_in_mint = ctx.swarms_mint
        THEN calculate_tokens_out(amount_in)
        ELSE calculate_swarms_out(amount_in)

\* `>` written for `>=`.
swap_check_min_output_strict(output_amount, min_amount_out) ==
    output_amount > min_amount_out

\* lib.rs:50
swap_check_min_output(output_amount, min_amount_out) ==
    output_amount >= min_amount_out

swap(accounts, ctx, amount_in, min_amount_out) ==
    IF ~swap_check_swarms_mint(ctx) THEN Abort(accounts, "InvalidSwarmsMint")
    ELSE IF ~swap_check_input_token(ctx) THEN Abort(accounts, "InvalidInputToken")
    ELSE
    LET output_amount == swap_output_amount(ctx, amount_in) IN
    IF output_amount.tag # "Ok" THEN Abort(accounts, output_amount.tag)
    ELSE IF ~swap_check_min_output(output_amount.val, min_amount_out)
        THEN Abort(accounts, "SlippageExceeded")
    ELSE
    LET t1 == token_transfer(accounts, ctx.user_token_in, ctx.vault_token_in,
                             ctx.user, amount_in) IN
    IF t1.tag # "Ok" THEN Abort(accounts, t1.tag)
    ELSE
    LET t2 == token_transfer(t1.accounts, ctx.vault_token_out, ctx.user_token_out,
                             vault_address(ctx.minted_mint), output_amount.val) IN
    IF t2.tag # "Ok" THEN Abort(accounts, t2.tag)
    ELSE [result |-> "Ok", accounts |-> t2.accounts,
          transfers |-> <<Transfer(ctx.user_token_in, ctx.vault_token_in, amount_in),
                          Transfer(ctx.vault_token_out, ctx.user_token_out,
                                   output_amount.val)>>]

---------------------------------------------------------------------------
\* withdraw_liquidity (lib.rs:90-142).  A step takes and returns
\* [tag, accounts, transfers]; `?` stops at the first step that is not Ok.

\* The caller compared with the vault record's stored authority.
withdraw_check_authority_stored(ctx) == ctx.authority = vault.authority

\* lib.rs:96-99
withdraw_check_authority(ctx) == to_string(ctx.authority) = WITHDRAW_AUTHORITY

\* lib.rs:110-123
withdraw_swarms(st, ctx, swarms_amount) ==
    IF swarms_amount > 0
    THEN LET t == token_transfer(st.accounts, ctx.vault_swarms, ctx.authority_swarms,
                                 vault_address(ctx.minted_mint), swarms_amount)
         IN  [tag |-> t.tag, accounts |-> t.accounts,
              transfers |-> IF t.tag = "Ok"
                            THEN Append(st.transfers,
                                        Transfer(ctx.vault_swarms, ctx.authority_swarms,
                                                 swarms_amount))
                            ELSE st.transfers]
    ELSE st

\* The transfer's result dropped instead of propagated with `?`.
withdraw_minted_unchecked(st, ctx, minted_amount) ==
    IF minted_amount > 0
    THEN LET t == token_transfer(st.accounts, ctx.vault_minted, ctx.authority_minted,
                                 vault_address(ctx.minted_mint), minted_amount)
         IN  [tag |-> "Ok", accounts |-> t.accounts,
              transfers |-> IF t.tag = "Ok"
                            THEN Append(st.transfers,
                                        Transfer(ctx.vault_minted, ctx.authority_minted,
                                                 minted_amount))
                            ELSE st.transfers]
    ELSE st

\* lib.rs:126-139
withdraw_minted(st, ctx, minted_amount) ==
    IF minted_amount > 0
    THEN LET t == token_transfer(st.accounts, ctx.vault_minted, ctx.authority_minted,
                                 vault_address(ctx.minted_mint), minted_amount)
         IN  [tag |-> t.tag, accounts |-> t.accounts,
              transfers |-> IF t.tag = "Ok"
                            THEN Append(st.transfers,
                                        Transfer(ctx.vault_minted, ctx.authority_minted,
                                                 minted_amount))
                            ELSE st.transfers]
    ELSE st

withdraw_liquidity(accounts, ctx, swarms_amount, minted_amount) ==
    IF ~withdraw_check_authority(ctx)
        THEN Abort(accounts, "InvalidWithdrawAuthority")
    ELSE
    LET s1 == withdraw_swarms([tag |-> "Ok", accounts |-> accounts, transfers |-> <<>>],
                              ctx, swarms_amount) IN
    IF s1.tag # "Ok" THEN Abort(accounts, s1.tag)
    ELSE
    LET s2 == withdraw_minted(s1, ctx, minted_amount) IN
    IF s2.tag # "Ok" THEN Abort(accounts, s2.tag)
    ELSE [result |-> "Ok", accounts |-> s2.accounts, transfers |-> s2.transfers]

---------------------------------------------------------------------------
\* Requests.  Anchor has checked the account structs before a handler runs:
\* the vault is the one derived from minted_mint (lib.rs:150-155, 180-185),
\* so minted_mint is the pool's mint; the mints and the token accounts are
\* whatever the caller passes (lib.rs:157-170, 187-197 put no constraint).

\* The accounts a well-behaved client passes for the declared input mint.
CanonicalSwapAccounts(token_in_mint) ==
    IF token_in_mint = MintedMintKey
    THEN [user_token_in |-> "user_minted", vault_token_in |-> "vault_minted",
          vault_token_out |-> "vault_swarms", user_token_out |-> "user_swarms"]
    ELSE [user_token_in |-> "user_swarms", vault_token_in |-> "vault_swarms",
          vault_token_out |-> "vault_minted", user_token_out |-> "user_minted"]

SwapCtx(swarms_mint, token_in_mint, slots) ==
    [user |-> UserKey, swarms_mint |-> swarms_mint, minted_mint |-> MintedMintKey,
     token_in_mint |-> token_in_mint,
     user_token_in |-> slots.user_token_in, vault_token_in |-> slots.vault_token_in,
     vault_token_out |-> slots.vault_token_out, user_token_out |-> slots.user_token_out]

\* Any mints, any amounts, the canonical token accounts.
CanonicalSwapInputs ==
    {[ctx |-> SwapCtx(sm, tm, CanonicalSwapAccounts(tm)),
      amount_in |-> a, min_amount_out |-> m] :
        sm \in MintKeys, tm \in MintKeys, a \in U64, m \in U64}

\* Accounts tried in each slot of a swap: the two of the party the slot is
\* named for and, where funds are sent from or to the vault, one of the other
\* party.  The output goes to an account of the caller.
UserTokenIns == {"user_swarms", "user_minted", "vault_minted"}
VaultTokenIns == {"vault_swarms", "vault_minted", "user_swarms"}
VaultTokenOuts == {"vault_swarms", "vault_minted", "user_minted"}
UserTokenOuts == {"user_swarms", "user_minted"}

\* The right mints, the token accounts free, no slippage bound.
FreeAccountSwapInputs ==
    {[ctx |-> SwapCtx(SwarmsMintKey, tm, slots), amount_in |-> a, min_amount_out |-> 0] :
        tm \in {SwarmsMintKey, MintedMintKey},
        slots \in [user_token_in : UserTokenIns, vault_token_in : VaultTokenIns,
                   vault_token_out : VaultTokenOuts, user_token_out : UserTokenOuts],
        a \in 0..UserSwarms}

WithdrawAmounts == (0..MaxWithdraw) \cup {U64_MAX}

WithdrawCtx(authority, vs, vm, as, am) ==
    [authority |-> authority, minted_mint |-> MintedMintKey,
     vault_swarms |-> vs, vault_minted |-> vm,
     authority_swarms |-> as, authority_minted |-> am]

\* Any signer, the SWARMS slots canonical, the minted slots canonical or
\* filled with the SWARMS accounts again.
WithdrawInputs ==
    {[ctx |-> WithdrawCtx(c, "vault_swarms", vm, "authority_swarms", am),
      swarms_amount |-> a, minted_amount |-> b] :
        c \in SignerKeys, vm \in {"vault_minted", "vault_swarms"},
        am \in {"authority_minted", "authority_swarms"},
        a \in WithdrawAmounts, b \in WithdrawAmounts}

---------------------------------------------------------------------------
InitialAccounts ==
    [id \in TokenAccountIds |->
        CASE id = "user_swarms" ->
                [mint |-> SwarmsMintKey, owner |-> UserKey, amount |-> UserSwarms]
          [] id = "user_minted" ->
                [mint |-> MintedMintKey, owner |-> UserKey, amount |-> 0]
          [] id = "vault_swarms" ->
                [mint |-> SwarmsMintKey, owner |-> VaultKey, amount |-> 0]
          [] id = "vault_minted" ->
                [mint |-> MintedMintKey, owner |-> VaultKey,
                 amount |-> INITIAL_TOKEN_SUPPLY]
          [] id = "authority_swarms" ->
                [mint |-> SwarmsMintKey, owner |-> WithdrawAuthorityKey, amount |-> 0]
          [] OTHER ->
                [mint |-> MintedMintKey, owner |-> WithdrawAuthorityKey, amount |-> 0]]

NoInstruction ==
    [op |-> "none", ctx |-> <<>>, arg1 |-> 0, arg2 |-> 0, result |-> "Ok",
     transfers |-> <<>>, before |-> InitialAccounts]

InitPool ==
    /\ overflow_checks \in BOOLEAN
    /\ vault \in [minted_mint : {MintedMintKey}, swarms_mint : {SwarmsMintKey},
                  authority : {WithdrawAuthorityKey, OperatorKey}]
    /\ token_accounts = InitialAccounts
    /\ last = NoInstruction

Init ==
    /\ InitPool
    /\ calc = [fn |-> "none", x |-> 0, y |-> 0, rx |-> Ok(0), ry |-> Ok(0)]

InitCurve ==
    /\ InitPool
    /\ calc \in [fn : {"none"}, x : U64, y : U64, rx : {Ok(0)}, ry : {Ok(0)}]

\* The client submits one instruction at a time and reads its outcome.
SwapFrom(inputs) ==
    /\ last.op = "none"
    /\ \E inp \in inputs :
        LET r == swap(token_accounts, inp.ctx, inp.amount_in, inp.min_amount_out) IN
        /\ token_accounts' = r.accounts
        /\ last' = [op |-> "swap", ctx |-> inp.ctx, arg1 |-> inp.amount_in,
                    arg2 |-> inp.min_amount_out, result |-> r.result,
                    transfers |-> r.transfers, before |-> token_accounts]
        /\ UNCHANGED <<overflow_checks, vault, calc>>

Swap == SwapFrom(FreeAccountSwapInputs)

CanonicalSwap == SwapFrom(CanonicalSwapInputs)

WithdrawLiquidity ==
    /\ last.op = "none"
    /\ \E inp \in WithdrawInputs :
        LET r == withdraw_liquidity(token_accounts, inp.ctx, inp.swarms_amount,
                                    inp.minted_amount) IN
        /\ token_accounts' = r.accounts
        /\ last' = [op |-> "withdraw_liquidity", ctx |-> inp.ctx,
                    arg1 |-> inp.swarms_amount, arg2 |-> inp.minted_amount,
                    result |-> r.result, transfers |-> r.transfers,
                    before |-> token_accounts]
        /\ UNCHANGED <<overflow_checks, vault, calc>>

\* The client has read the outcome of the last instruction.
Acknowledge ==
    /\ last.op # "none"
    /\ last' = NoInstruction
    /\ UNCHANGED <<overflow_checks, vault, token_accounts, calc>>

\* The curve functions applied to the inputs x and y.
EvalTokensOut ==
    /\ calc' = [calc EXCEPT !.fn = "calculate_tokens_out",
                            !.rx = calculate_tokens_out(calc.x),
                            !.ry = calculate_tokens_out(calc.y)]
    /\ UNCHANGED <<overflow_checks, vault, token_accounts, last>>

EvalSwarmsOut ==
    /\ calc' = [calc EXCEPT !.fn = "calculate_swarms_out",
                            !.rx = calculate_swarms_out(calc.x),
                            !.ry = calculate_swarms_out(calc.y)]
    /\ UNCHANGED <<overflow_checks, vault, token_accounts, last>>

\* x SWARMS swapped for tokens (rx), all of them swapped back (ry).
EvalRoundTrip ==
    /\ calc' = [calc EXCEPT !.fn = "round_trip",
                            !.rx = calculate_tokens_out(calc.x),
                            !.ry = IF calculate_tokens_out(calc.x).tag = "Ok"
                                   THEN calculate_swarms_out(calculate_tokens_out(calc.x).val)
                                   ELSE calculate_tokens_out(calc.x)]
    /\ UNCHANGED <<overflow_checks, vault, token_accounts, last>>

Next == Swap \/ WithdrawLiquidity \/ Acknowledge

Spec == Init /\ [][Next]_vars

NextSwaps == CanonicalSwap \/ Acknowledge

SpecSwaps == Init /\ [][NextSwaps]_vars

NextCurve == EvalTokensOut \/ EvalSwarmsOut \/ EvalRoundTrip

SpecCurve == InitCurve /\ [][NextCurve]_vars

---------------------------------------------------------------------------
\* Properties.

Max(a, b) == IF a >= b THEN a ELSE b

\* The account of a mint that an owner holds.
AccountOf(owner, mint) ==
    CHOOSE id \in TokenAccountIds :
        InitialAccounts[id].owner = owner /\ InitialAccounts[id].mint = mint

OtherPoolMint(mint) == IF mint = SwarmsMintKey THEN MintedMintKey ELSE SwarmsMintKey

Unchanged == last.transfers = <<>> /\ token_accounts = last.before

\* The mint checks of a swap request, stated on the keys.
MintChecksPass(ctx) ==
    /\ ctx.swarms_mint = SwarmsMintKey
    /\ ctx.token_in_mint \in {SwarmsMintKey, MintedMintKey}

\* C1: a swap that passes both mint checks and whose curve computation gives
\* output o fails with SlippageExceeded and moves nothing when
\* min_amount_out > o, and does not fail the slippage check when
\* min_amount_out <= o.
C1_Slippage ==
    (/\ last.op = "swap"
     /\ MintChecksPass(last.ctx)
     /\ swap_output_amount(last.ctx, last.arg1).tag = "Ok")
    => LET o == swap_output_amount(last.ctx, last.arg1).val IN
       /\ last.arg2 > o => (last.result = "SlippageExceeded" /\ Unchanged)
       /\ last.arg2 <= o => last.result # "SlippageExceeded"

C1_Witness ==
    /\ last.op = "swap"
    /\ MintChecksPass(last.ctx)
    /\ swap_output_amount(last.ctx, last.arg1).tag = "Ok"
    /\ swap_output_amount(last.ctx, last.arg1).val > 0
    /\ last.arg2 = swap_output_amount(last.ctx, last.arg1).val + 1
    /\ last.result = "SlippageExceeded"
    /\ token_accounts = last.before

\* C2: round trip: whenever both steps succeed, the SWARMS got back for the
\* tokens that x SWARMS bought are at most x.
C2_RoundTrip ==
    (calc.fn = "round_trip" /\ calc.rx.tag = "Ok" /\ calc.ry.tag = "Ok")
    => calc.ry.val <= calc.x

\* C3: withdraw_liquidity by a caller other than the WITHDRAW_AUTHORITY
\* constant fails with InvalidWithdrawAuthority and moves nothing, whatever
\* the amounts and whatever authority the vault record stores.
C3_WithdrawAuthority ==
    (last.op = "withdraw_liquidity" /\ last.ctx.authority # WithdrawAuthorityKey)
    => (last.result = "InvalidWithdrawAuthority" /\ Unchanged)

C3_Witness ==
    /\ last.op = "withdraw_liquidity"
    /\ last.ctx.authority = vault.authority
    /\ last.ctx.authority # WithdrawAuthorityKey
    /\ last.arg1 > 0
    /\ last.before[last.ctx.vault_swarms].amount >= last.arg1
    /\ last.result = "InvalidWithdrawAuthority"
    /\ token_accounts = last.before

\* C4: a successful swap moves exactly amount_in of the declared input mint
\* from the caller to the vault's account of that mint, and exactly the curve
\* output of the other pool mint from the vault to the caller, whatever
\* token accounts the caller passes.
C4_SwapMovesDeclaredAssets ==
    (last.op = "swap" /\ last.result = "Ok")
    => LET in == last.ctx.token_in_mint
           out == OtherPoolMint(in)
           o == swap_output_amount(last.ctx, last.arg1).val
           vin == AccountOf(VaultKey, in)
           vout == AccountOf(VaultKey, out)
           uin == AccountOf(last.ctx.user, in)
           uout == AccountOf(last.ctx.user, out)
       IN  /\ token_accounts[vin].amount = last.before[vin].amount + last.arg1
           /\ token_accounts[uin].amount = last.before[uin].amount - last.arg1
           /\ token_accounts[vout].amount = last.before[vout].amount - o
           /\ token_accounts[uout].amount = last.before[uout].amount + o

\* C5: with only swaps through the pool's own accounts, the vault's balances
\* stay on the curve: minted = floor(K / (swarms + virtual swarms)).
C5_ConstantProduct ==
    token_accounts["vault_minted"].amount =
        K_VALUE \div (token_accounts["vault_swarms"].amount + INITIAL_VIRTUAL_SWARMS)

\* C6 as claimed: calculate_tokens_out is strictly increasing on all of u64.
C6_StrictlyIncreasing ==
    (calc.fn = "calculate_tokens_out" /\ calc.x < calc.y)
    => (calc.rx.tag = "Ok" /\ calc.ry.tag = "Ok" /\ calc.rx.val < calc.ry.val)

\* C6 as amended: calculate_tokens_out succeeds and is non-decreasing on all
\* of u64.
C6_NonDecreasing ==
    (calc.fn = "calculate_tokens_out" /\ calc.x < calc.y)
    => (calc.rx.tag = "Ok" /\ calc.ry.tag = "Ok" /\ calc.rx.val <= calc.ry.val)

C6_Witness ==
    /\ calc.fn = "calculate_tokens_out"
    /\ calc.x < calc.y
    /\ calc.rx.tag = "Ok" /\ calc.ry.tag = "Ok"
    /\ 0 < calc.rx.val /\ calc.rx.val < calc.ry.val

\* C7 as claimed: for tokens_in < INITIAL_TOKEN_SUPPLY, calculate_swarms_out
\* succeeds with max(0, floor(K / (supply - tokens_in)) - virtual swarms).
C7_AlwaysSucceeds ==
    (calc.fn = "calculate_swarms_out" /\ calc.x < INITIAL_TOKEN_SUPPLY)
    => calc.rx = Ok(Max(0, (K_VALUE \div (INITIAL_TOKEN_SUPPLY - calc.x))
                           - INITIAL_VIRTUAL_SWARMS))

\* C7 as amended: for tokens_in < INITIAL_TOKEN_SUPPLY, calculate_swarms_out
\* returns max(0, floor(K / (supply - tokens_in)) - virtual swarms) when that
\* fits in a u64 and BondingCurveError when it does not; it returns 0 for 0.
C7_SucceedsWhenRepresentable ==
    (calc.fn = "calculate_swarms_out" /\ calc.x < INITIAL_TOKEN_SUPPLY)
    => LET v == Max(0, (K_VALUE \div (INITIAL_TOKEN_SUPPLY - calc.x))
                       - INITIAL_VIRTUAL_SWARMS)
       IN  /\ v <= U64_MAX => calc.rx = Ok(v)
           /\ v > U64_MAX => calc.rx = Err("BondingCurveError")
           /\ calc.x = 0 => calc.rx = Ok(0)

C7_Witness ==
    /\ calc.fn = "calculate_swarms_out"
    /\ 0 < calc.x /\ calc.x < INITIAL_TOKEN_SUPPLY
    /\ calc.rx.tag = "Ok" /\ calc.rx.val > 0
    /\ calc.y < INITIAL_TOKEN_SUPPLY
    /\ calc.ry = Err("BondingCurveError")

\* C8: for every tokens_in >= INITIAL_TOKEN_SUPPLY, calculate_swarms_out
\* returns BondingCurveError.
C8_NoWrapAround ==
    (calc.fn = "calculate_swarms_out" /\ calc.x >= INITIAL_TOKEN_SUPPLY)
    => calc.rx = Err("BondingCurveError")

\* The transfers a withdrawal is to make, and their effect on the ledger.
ExpectedWithdrawals(ctx, swarms_amount, minted_amount) ==
    (IF swarms_amount > 0
     THEN <<Transfer(ctx.vault_swarms, ctx.authority_swarms, swarms_amount)>>
     ELSE <<>>)
    \o (IF minted_amount > 0
        THEN <<Transfer(ctx.vault_minted, ctx.authority_minted, minted_amount)>>
        ELSE <<>>)

RECURSIVE Moved(_, _)
Moved(accounts, transfers) ==
    IF transfers = <<>> THEN accounts
    ELSE LET t == Head(transfers)
             debited == [accounts EXCEPT ![t.from].amount = @ - t.amount]
         IN  Moved([debited EXCEPT ![t.to].amount = @ + t.amount], Tail(transfers))

\* C9: a withdrawal by the withdraw authority is all or nothing: it succeeds
\* and exactly the transfers of its nonzero amounts, between the accounts it
\* was passed, have taken effect (none when both are zero), or it fails and no
\* balance has changed.
C9_WithdrawAllOrNothing ==
    (last.op = "withdraw_liquidity" /\ last.ctx.authority = WithdrawAuthorityKey)
    => LET expected == ExpectedWithdrawals(last.ctx, last.arg1, last.arg2) IN
       /\ \/ /\ last.result = "Ok"
             /\ last.transfers = expected
             /\ token_accounts = Moved(last.before, expected)
          \/ /\ last.result # "Ok"
             /\ Unchanged
       /\ expected = <<>> => last.result = "Ok"

\* The SWARMS transfer went through, the minted transfer failed.
C9_Witness ==
    /\ last.op = "withdraw_liquidity"
    /\ last.ctx.authority = WithdrawAuthorityKey
    /\ last.arg1 > 0 /\ last.arg2 > 0
    /\ last.before[last.ctx.vault_swarms].amount >= last.arg1
    /\ last.ctx.vault_swarms = "vault_swarms"
    /\ last.result # "Ok"
    /\ token_accounts = last.before

\* C10: the checks of a swap run in order and the first that fails names the
\* error, with nothing moved: a wrong SWARMS mint gives InvalidSwarmsMint
\* whatever else is passed; otherwise an input mint that is neither the
\* SWARMS mint nor the minted mint gives InvalidInputToken.
C10_ValidationOrder ==
    last.op = "swap"
    => /\ last.ctx.swarms_mint # SwarmsMintKey
            => (last.result = "InvalidSwarmsMint" /\ Unchanged)
       /\ (/\ last.ctx.swarms_mint = SwarmsMintKey
           /\ last.ctx.token_in_mint \notin {SwarmsMintKey, last.ctx.minted_mint})
            => (last.result = "InvalidInputToken" /\ Unchanged)

\* An input mint that is no pool mint, with an amount the curve rejects and a
\* slippage bound no output meets.
C10_Witness ==
    /\ last.op = "swap"
    /\ last.ctx.swarms_mint = SwarmsMintKey
    /\ last.ctx.token_in_mint = OtherMintKey
    /\ last.arg1 >= INITIAL_TOKEN_SUPPLY
    /\ last.arg2 = U64_MAX
    /\ last.result = "InvalidInputToken"

====
